---- MODULE Spec2Model ----
(***************************************************************************)
(* Model of the CodeCaddy book collection store                            *)
(* (contexts/BookCollectionContext.tsx, utils/bookMappers.ts): the         *)
(* reducer, the derived-array helper, the localStorage codec, the save     *)
(* effect and the asynchronous search orchestration.                       *)
(***************************************************************************)
EXTENDS Naturals, Integers, Sequences, FiniteSets, TLC

(***************************************************************************)
(* Bounds of the model.                                                    *)
(***************************************************************************)
\* longest collection found in the slot when the application first starts
MaxStored == 2
\* largest storage capacity, in book records, the environment may offer
MaxQuota == 2
\* most searchBooks calls awaiting their response at the same time
MaxInflight == 2

(***************************************************************************)
(* Data: Book, BookStatus (shared/types.ts).  A JavaScript string is the   *)
(* sequence of its pieces, so that joining, trimming and the empty string  *)
(* are computed rather than looked up: Str("2008") is a one-piece string   *)
(* and << >> is "".                                                        *)
(***************************************************************************)
Str(a) == << a >>

BookStatus ==
  { Str("want-to-read"), Str("currently-reading"), Str("have-read") }

\* JavaScript null, as held by state.error
null == << "<null>" >>

\* ids of the catalog the user picks books from
Ids == { Str("mock1"), Str("mock2") }

\* the text fields of a Book other than id and status, as the UI hands them
\* to addBook: a fully described edition and one mapped with the defaults
Payloads ==
  { [ title |-> Str("Clean Code"), author |-> Str("Robert C. Martin"),
      publishedDate |-> Str("2008"), description |-> Str("A handbook"),
      thumbnail |-> Str("https://example.com/cc.jpg") ],
    [ title |-> Str("Clean Code 2e"), author |-> Str("Unknown Author"),
      publishedDate |-> Str("Unknown Date"),
      description |-> Str("No description available"),
      thumbnail |->
        Str("https://via.placeholder.com/128x192.png?text=No+Cover") ] }

Book(id, p, status) ==
  [ id |-> id, title |-> p.title, author |-> p.author,
    publishedDate |-> p.publishedDate, description |-> p.description,
    thumbnail |-> p.thumbnail, status |-> status ]

\* every Book value the UI passes to addBook: each id with each status, the
\* first id in both editions
Books ==
  { Book(id, p, s) : id \in Ids, p \in Payloads, s \in BookStatus }
  \ { b \in { Book(id, p, s) : id \in Ids, p \in Payloads, s \in BookStatus } :
        b.id = Str("mock2") /\ b.author = Str("Unknown Author") }

\* property order of a Book object (shared/types.ts)
BookKeys ==
  << "id", "title", "author", "publishedDate", "description", "thumbnail",
     "status" >>

(***************************************************************************)
(* JSON texts.  A text is a sequence of tokens; JSON.stringify writes one  *)
(* and JSON.parse reads one back, or throws a SyntaxError.                 *)
(***************************************************************************)
P(c) == [t |-> "punct", v |-> Str(c)]
K(name) == [t |-> "string", v |-> Str(name)]
S(s) == [t |-> "string", v |-> s]
L(w) == [t |-> "literal", v |-> Str(w)]

\* the value JSON.parse gives for the literal null inside an array
JsNull == [jsNull |-> TRUE]
IsJsNull(x) == "jsNull" \in DOMAIN x

\* "key":"value" members of one object, in property order, comma separated
RECURSIVE StringifyMembers(_, _)
StringifyMembers(obj, keys) ==
  IF keys = << >> THEN << >>
  ELSE << K(Head(keys)), P(":"), S(obj[Head(keys)]) >>
       \o (IF Tail(keys) = << >> THEN << >> ELSE << P(",") >>)
       \o StringifyMembers(obj, Tail(keys))

StringifyBook(b) == << P("{") >> \o StringifyMembers(b, BookKeys) \o << P("}") >>

RECURSIVE StringifyElements(_)
StringifyElements(books) ==
  IF books = << >> THEN << >>
  ELSE StringifyBook(Head(books))
       \o (IF Tail(books) = << >> THEN << >> ELSE << P(",") >>)
       \o StringifyElements(Tail(books))

\* JSON.stringify(state.books)
JSONstringify(books) == << P("[") >> \o StringifyElements(books) \o << P("]") >>

SyntaxError == [ok |-> FALSE, type |-> "error", val |-> << >>, next |-> 0]
Parsed(type, val, next) == [ok |-> TRUE, type |-> type, val |-> val, next |-> next]

\* obj with property k set to v (a repeated key keeps the last value)
PutKey(obj, k, v) ==
  [x \in DOMAIN obj \cup {k} |-> IF x = k THEN v ELSE obj[x]]

At(toks, i) == IF i \in 1..Len(toks) THEN toks[i] ELSE P("<eof>")

\* members of an object from token i on: string ":" string, then "," or "}"
RECURSIVE ParseMembers(_, _, _)
ParseMembers(toks, i, obj) ==
  IF At(toks, i).t = "string" /\ Len(At(toks, i).v) = 1
       /\ At(toks, i + 1) = P(":") /\ At(toks, i + 2).t = "string"
  THEN LET obj2 == PutKey(obj, toks[i].v[1], toks[i + 2].v) IN
       IF At(toks, i + 3) = P(",") THEN ParseMembers(toks, i + 4, obj2)
       ELSE IF At(toks, i + 3) = P("}") THEN Parsed("object", obj2, i + 4)
       ELSE SyntaxError
  ELSE SyntaxError

ParseObject(toks, i) ==
  IF At(toks, i) # P("{") THEN SyntaxError
  ELSE IF At(toks, i + 1) = P("}") THEN Parsed("object", << >>, i + 2)
  ELSE ParseMembers(toks, i + 1, << >>)

\* one array element: an object or null
ParseElement(toks, i) ==
  IF At(toks, i) = L("null") THEN Parsed("null", JsNull, i + 1)
  ELSE ParseObject(toks, i)

\* elements of an array from token i on, then "," or "]"
RECURSIVE ParseElements(_, _, _)
ParseElements(toks, i, acc) ==
  LET e == ParseElement(toks, i) IN
  IF ~e.ok THEN SyntaxError
  ELSE IF At(toks, e.next) = P(",")
       THEN ParseElements(toks, e.next + 1, Append(acc, e.val))
  ELSE IF At(toks, e.next) = P("]")
       THEN Parsed("array", Append(acc, e.val), e.next + 1)
  ELSE SyntaxError

ParseValue(toks) ==
  IF At(toks, 1) = P("[")
  THEN IF At(toks, 2) = P("]") THEN Parsed("array", << >>, 3)
       ELSE ParseElements(toks, 2, << >>)
  ELSE IF At(toks, 1) = P("{") THEN ParseObject(toks, 1)
  ELSE IF At(toks, 1) = L("null") THEN Parsed("null", JsNull, 2)
  ELSE IF At(toks, 1).t = "string" THEN Parsed("string", toks[1].v, 2)
  ELSE SyntaxError

\* JSON.parse(text): the whole text must be one value
JSONparse(toks) ==
  LET r == ParseValue(toks) IN
  IF r.ok /\ r.next = Len(toks) + 1 THEN r ELSE SyntaxError

\* Array.isArray
IsArray(r) == r.type = "array"

(***************************************************************************)
(* The reducer (contexts/BookCollectionContext.tsx).                       *)
(***************************************************************************)
\* a filter that gives the matching records last to first
FilterByStatusReversed(books, status) ==
  LET kept == SelectSeq(books, LAMBDA b : b.status = status) IN
  [ i \in 1..Len(kept) |-> kept[Len(kept) + 1 - i] ]

\* books.filter(b => b.status === status)
FilterByStatus(books, status) ==
  SelectSeq(books, LAMBDA b : b.status = status)

computeDerivedArrays(books) ==
  [ currentlyReading |-> FilterByStatus(books, Str("currently-reading")),
    wantToRead |-> FilterByStatus(books, Str("want-to-read")),
    haveRead |-> FilterByStatus(books, Str("have-read")) ]

initialState ==
  [ books |-> << >>, searchResults |-> << >>, isLoading |-> FALSE,
    error |-> null, currentlyReading |-> << >>, wantToRead |-> << >>,
    haveRead |-> << >> ]

\* { ...state, books: updatedBooks, ...computeDerivedArrays(updatedBooks) }
WithBooks(state, updatedBooks) ==
  LET d == computeDerivedArrays(updatedBooks) IN
  [ state EXCEPT !.books = updatedBooks,
                 !.currentlyReading = d.currentlyReading,
                 !.wantToRead = d.wantToRead,
                 !.haveRead = d.haveRead ]

\* an ADD_BOOK that takes the book out again when its id is already there
ReduceAddBookToggling(state, book) ==
  IF \E i \in DOMAIN state.books : state.books[i].id = book.id
  THEN WithBooks(state, SelectSeq(state.books, LAMBDA b : b.id # book.id))
  ELSE WithBooks(state, Append(state.books, book))

\* an ADD_BOOK that appends without removing the record of the same id
ReduceAddBookAppendOnly(state, book) ==
  WithBooks(state, Append(state.books, book))

\* an ADD_BOOK that keeps the record already stored under the id, moved last
ReduceAddBookKeepExisting(state, book) ==
  WithBooks(state,
            SelectSeq(state.books, LAMBDA b : b.id # book.id)
            \o (IF \E i \in DOMAIN state.books : state.books[i].id = book.id
                THEN SelectSeq(state.books, LAMBDA b : b.id = book.id)
                ELSE << book >>))

\* an ADD_BOOK that overwrites the record of the same id where it stands
ReduceAddBookInPlace(state, book) ==
  WithBooks(state,
            IF \E i \in DOMAIN state.books : state.books[i].id = book.id
            THEN [ i \in DOMAIN state.books |->
                     IF state.books[i].id = book.id THEN book
                     ELSE state.books[i] ]
            ELSE Append(state.books, book))

\* an ADD_BOOK that also dismisses the error
ReduceAddBookClearingError(state, book) ==
  [ WithBooks(state,
              Append(SelectSeq(state.books, LAMBDA b : b.id # book.id), book))
      EXCEPT !.error = null ]

ReduceAddBook(state, book) ==
  WithBooks(state,
            Append(SelectSeq(state.books, LAMBDA b : b.id # book.id), book))

\* a REMOVE_BOOK whose filter keeps the records of the id
ReduceRemoveBookInverted(state, bookId) ==
  WithBooks(state, SelectSeq(state.books, LAMBDA b : b.id = bookId))

\* a REMOVE_BOOK that leaves the derived arrays as they were
ReduceRemoveBookStaleViews(state, bookId) ==
  [ state EXCEPT !.books = SelectSeq(state.books, LAMBDA b : b.id # bookId) ]

ReduceRemoveBook(state, bookId) ==
  WithBooks(state, SelectSeq(state.books, LAMBDA b : b.id # bookId))

\* an UPDATE_BOOK_STATUS that does not recompute the derived arrays
ReduceUpdateBookStatusStale(state, bookId, status) ==
  [ state EXCEPT !.books =
      [ i \in DOMAIN state.books |->
          IF state.books[i].id = bookId
          THEN [ state.books[i] EXCEPT !.status = status ]
          ELSE state.books[i] ] ]

\* an UPDATE_BOOK_STATUS that moves the updated record to the end
ReduceUpdateBookStatusMovingLast(state, bookId, status) ==
  WithBooks(state,
            SelectSeq(state.books, LAMBDA b : b.id # bookId)
            \o [ i \in DOMAIN SelectSeq(state.books, LAMBDA b : b.id = bookId) |->
                   [ SelectSeq(state.books, LAMBDA b : b.id = bookId)[i]
                       EXCEPT !.status = status ] ])

ReduceUpdateBookStatus(state, bookId, status) ==
  WithBooks(state,
            [ i \in DOMAIN state.books |->
                IF state.books[i].id = bookId
                THEN [ state.books[i] EXCEPT !.status = status ]
                ELSE state.books[i] ])

\* SET_SEARCH_RESULTS that leaves the error as it is
ReduceSetSearchResultsKeepingError(state, results) ==
  [ state EXCEPT !.searchResults = results, !.isLoading = FALSE ]

\* SET_SEARCH_RESULTS that leaves isLoading as it is
ReduceSetSearchResultsKeepingLoading(state, results) ==
  [ state EXCEPT !.searchResults = results, !.error = null ]

\* SET_SEARCH_RESULTS that adds the results to those already held
ReduceSetSearchResultsAppending(state, results) ==
  [ state EXCEPT !.searchResults = state.searchResults \o results,
                 !.isLoading = FALSE, !.error = null ]

\* SET_LOADING that starts the cycle afresh: the results and the message of
\* the previous search are dropped
ReduceSetLoadingClearingResults(state, flag) ==
  [ state EXCEPT !.isLoading = flag, !.searchResults = << >>, !.error = null ]

\* SET_LOADING that is ignored
ReduceSetLoadingIgnored(state, flag) == state

\* CLEAR_SEARCH that also ends the loading
ReduceClearSearchResettingLoading(state) ==
  [ state EXCEPT !.searchResults = << >>, !.error = null, !.isLoading = FALSE ]

ReduceSetSearchResults(state, results) ==
  [ state EXCEPT !.searchResults = results, !.isLoading = FALSE,
                 !.error = null ]

ReduceSetLoading(state, flag) == [ state EXCEPT !.isLoading = flag ]

\* SET_ERROR that also drops the search results
ReduceSetErrorClearingResults(state, message) ==
  [ state EXCEPT !.error = message, !.isLoading = FALSE,
                 !.searchResults = << >> ]

ReduceSetError(state, message) ==
  [ state EXCEPT !.error = message, !.isLoading = FALSE ]

ReduceClearSearch(state) ==
  [ state EXCEPT !.searchResults = << >>, !.error = null ]

ReduceLoadFromStorage(state, books) == WithBooks(state, books)

\* a reducer whose default case starts over from the initial state
bookCollectionReducerResetting(state, action) ==
  CASE action.type = "ADD_BOOK" -> ReduceAddBook(state, action.payload)
    [] action.type = "REMOVE_BOOK" -> ReduceRemoveBook(state, action.payload)
    [] action.type = "UPDATE_BOOK_STATUS" ->
         ReduceUpdateBookStatus(state, action.payload.id, action.payload.status)
    [] action.type = "SET_SEARCH_RESULTS" ->
         ReduceSetSearchResults(state, action.payload)
    [] action.type = "SET_LOADING" -> ReduceSetLoading(state, action.payload)
    [] action.type = "SET_ERROR" -> ReduceSetError(state, action.payload)
    [] action.type = "CLEAR_SEARCH" -> ReduceClearSearch(state)
    [] action.type = "LOAD_FROM_STORAGE" ->
         ReduceLoadFromStorage(state, action.payload)
    [] OTHER -> initialState

bookCollectionReducer(state, action) ==
  CASE action.type = "ADD_BOOK" -> ReduceAddBook(state, action.payload)
    [] action.type = "REMOVE_BOOK" -> ReduceRemoveBook(state, action.payload)
    [] action.type = "UPDATE_BOOK_STATUS" ->
         ReduceUpdateBookStatus(state, action.payload.id, action.payload.status)
    [] action.type = "SET_SEARCH_RESULTS" ->
         ReduceSetSearchResults(state, action.payload)
    [] action.type = "SET_LOADING" -> ReduceSetLoading(state, action.payload)
    [] action.type = "SET_ERROR" -> ReduceSetError(state, action.payload)
    [] action.type = "CLEAR_SEARCH" -> ReduceClearSearch(state)
    [] action.type = "LOAD_FROM_STORAGE" ->
         ReduceLoadFromStorage(state, action.payload)
    [] OTHER -> state

Action(type, payload) == [type |-> type, payload |-> payload]

(***************************************************************************)
(* The durable slot: localStorage[STORAGE_KEY].                            *)
(***************************************************************************)
\* getItem gives null for a key that was never set
NoItem == [present |-> FALSE, text |-> << >>]
Item(text) == [present |-> TRUE, text |-> text]

\* a loadInitialState that never uses the saved books
loadInitialStateIgnoringSaved(item, denied) == initialState

\* a loadInitialState that reports a text it cannot use in state.error
loadInitialStateSurfacing(item, denied) ==
  IF ~denied /\ item.present /\ item.text # << >>
  THEN LET r == JSONparse(item.text) IN
       IF r.ok /\ IsArray(r) /\ \A i \in DOMAIN r.val : ~IsJsNull(r.val[i])
       THEN WithBooks(initialState, r.val)
       ELSE [ initialState EXCEPT
                !.error = Str("Failed to load books from localStorage") ]
  ELSE initialState

\* loadInitialState: any throw inside the try block (a SecurityError of the
\* storage access, a SyntaxError of JSON.parse, a TypeError of filter
\* reading .status of null) is caught
loadInitialState(item, denied) ==
  IF ~denied /\ item.present /\ item.text # << >>
  THEN LET r == JSONparse(item.text) IN
       IF ~r.ok THEN initialState
       ELSE IF IsArray(r)
            THEN IF \E i \in DOMAIN r.val : IsJsNull(r.val[i])
                 THEN initialState
                 ELSE WithBooks(initialState, r.val)
            ELSE initialState
  ELSE initialState

\* the storage holds at most a text of this many tokens under the key: the
\* size of an array of k book records
Capacity(k) ==
  Len(JSONstringify([i \in 1..k |-> CHOOSE b \in Books : TRUE]))

\* what localStorage.setItem does with a text when the capacity is cap: it
\* stores it or throws a DOMException named QuotaExceededError; when the
\* browser denies the page its storage, every access throws a SecurityError
SetItemOutcomes(text, cap, denied) ==
  IF denied THEN {"SecurityError"}
  ELSE IF Len(text) > cap THEN {"QuotaExceededError"} ELSE {"stored"}

QuotaMessage == Str("Storage quota exceeded. Please remove some books.")

\* a save effect that writes the newest book only
SaveEffectStoringNewestOnly(state, item, outcome) ==
  CASE outcome = "stored" ->
         [ state |-> state,
           item |-> Item(JSONstringify(
                      IF state.books = << >> THEN << >>
                      ELSE << state.books[Len(state.books)] >>)) ]
    [] outcome = "QuotaExceededError" ->
         [ state |-> bookCollectionReducer(state,
                                           Action("SET_ERROR", QuotaMessage)),
           item |-> item ]
    [] OTHER -> [state |-> state, item |-> item]

\* a save effect that takes the message back once a write is accepted
SaveEffectClearingErrorOnSuccess(state, item, outcome) ==
  CASE outcome = "stored" ->
         [ state |-> bookCollectionReducer(state, Action("SET_ERROR", null)),
           item |-> Item(JSONstringify(state.books)) ]
    [] outcome = "QuotaExceededError" ->
         [ state |-> bookCollectionReducer(state,
                                           Action("SET_ERROR", QuotaMessage)),
           item |-> item ]
    [] OTHER -> [state |-> state, item |-> item]

\* a save effect that reports every rejected write as a full storage
SaveEffectSurfacingEveryFailure(state, item, outcome) ==
  CASE outcome = "stored" ->
         [state |-> state, item |-> Item(JSONstringify(state.books))]
    [] OTHER ->
         [ state |-> bookCollectionReducer(state,
                                           Action("SET_ERROR", QuotaMessage)),
           item |-> item ]

\* a save effect that never calls setItem
SaveEffectNoWrite(state, item, outcome) == [state |-> state, item |-> item]

\* a save effect that keeps a rejected write to itself
SaveEffectSilentOnQuota(state, item, outcome) ==
  CASE outcome = "stored" ->
         [state |-> state, item |-> Item(JSONstringify(state.books))]
    [] OTHER -> [state |-> state, item |-> item]

\* a save effect that serializes the search results along with the books
SaveEffectWithSearchResults(state, item, outcome) ==
  CASE outcome = "stored" ->
         [ state |-> state,
           item |-> Item(JSONstringify(state.books \o state.searchResults)) ]
    [] outcome = "QuotaExceededError" ->
         [ state |-> bookCollectionReducer(state,
                                           Action("SET_ERROR", QuotaMessage)),
           item |-> item ]
    [] OTHER -> [state |-> state, item |-> item]

\* the effect on [state.books]: runs after the first render and after every
\* render in which state.books is a new array
SaveEffect(state, item, outcome) ==
  CASE outcome = "stored" ->
         [state |-> state, item |-> Item(JSONstringify(state.books))]
    [] outcome = "QuotaExceededError" ->
         [ state |-> bookCollectionReducer(state,
                                           Action("SET_ERROR", QuotaMessage)),
           item |-> item ]
    [] OTHER -> [state |-> state, item |-> item]

(***************************************************************************)
(* The mapping adapter (utils/bookMappers.ts) and the search collaborator. *)
(***************************************************************************)
\* an optional property: present with a value, or undefined
Some(x) == [has |-> TRUE, val |-> x]
None == [has |-> FALSE, val |-> << >>]

\* Array.prototype.join(sep) on an array of strings
RECURSIVE Join(_, _)
Join(strs, sep) ==
  IF strs = << >> THEN << >>
  ELSE IF Len(strs) = 1 THEN Head(strs)
  ELSE Head(strs) \o sep \o Join(Tail(strs), sep)

\* a fallback taken for undefined only, as x ?? fallback takes it
OrElseForUndefinedOnly(opt, fallback) ==
  IF opt.has THEN opt.val ELSE fallback

\* x || fallback on an optional string: undefined and "" are falsy
OrElse(opt, fallback) ==
  IF opt.has /\ opt.val # << >> THEN opt.val ELSE fallback

PlaceholderThumbnail ==
  Str("https://via.placeholder.com/128x192.png?text=No+Cover")

mapGoogleBookToBook(item, status) ==
  [ id |-> item.id,
    title |-> item.volumeInfo.title,
    author |->
      OrElse(IF item.volumeInfo.authors.has
             THEN Some(Join(item.volumeInfo.authors.val, Str(", ")))
             ELSE None,
             Str("Unknown Author")),
    publishedDate |-> OrElse(item.volumeInfo.publishedDate, Str("Unknown Date")),
    description |->
      OrElse(item.volumeInfo.description, Str("No description available")),
    thumbnail |->
      OrElse(IF item.volumeInfo.imageLinks.has
             THEN item.volumeInfo.imageLinks.val.thumbnail
             ELSE None,
             PlaceholderThumbnail),
    status |-> status ]

GoogleBookItem(id, title, authors, publishedDate, description, imageLinks) ==
  [ id |-> id,
    volumeInfo |->
      [ title |-> title, authors |-> authors, publishedDate |-> publishedDate,
        description |-> description, imageLinks |-> imageLinks ] ]

\* two items of the collaborator's catalog: one fully described, one bare
ItemFull ==
  GoogleBookItem(Str("mock1"), Str("The Pragmatic Programmer"),
                 Some(<< Str("David Thomas"), Str("Andrew Hunt") >>),
                 Some(Str("1999")), Some(Str("Your journey to mastery")),
                 Some([thumbnail |-> Some(Str("https://example.com/pp.png"))]))

ItemBare ==
  GoogleBookItem(Str("mock2"), Str("Clean Code"), None, None, None, None)

\* how the awaited booksApi.searchBooks call can end
Resolved(items) == [kind |-> "resolved", items |-> items, message |-> << >>]
Rejected(kind, message) == [kind |-> kind, items |-> None, message |-> message]

ApiOutcomes ==
  { Resolved(Some(<< ItemBare, ItemFull >>)), Resolved(Some(<< >>)),
    Resolved(None),
    Rejected("rejected with Error",
             Str("API request failed with status 500")),
    Rejected("rejected with non-Error", << >>) }

NoBooksMessage == Str("No books found matching your search.")
UnknownErrorMessage == Str("An unknown error occurred while searching")

\* a mapping that lists the items last to first
MapItemsReversed(items) ==
  [ i \in DOMAIN items |->
      mapGoogleBookToBook(items[Len(items) + 1 - i], Str("want-to-read")) ]

\* response.items.map(item => mapGoogleBookToBook(item))
MapItems(items) ==
  [ i \in DOMAIN items |-> mapGoogleBookToBook(items[i], Str("want-to-read")) ]

\* a searchBooks that reports an empty response before it clears the results
SearchSettledReportingFirst(state, outcome) ==
  IF outcome.kind = "resolved"
  THEN IF ~outcome.items.has \/ Len(outcome.items.val) = 0
       THEN bookCollectionReducer(
              bookCollectionReducer(state, Action("SET_ERROR", NoBooksMessage)),
              Action("SET_SEARCH_RESULTS", << >>))
       ELSE bookCollectionReducer(
              state, Action("SET_SEARCH_RESULTS", MapItems(outcome.items.val)))
  ELSE bookCollectionReducer(
         bookCollectionReducer(
           state,
           Action("SET_ERROR",
                  IF outcome.kind = "rejected with Error"
                  THEN outcome.message ELSE UnknownErrorMessage)),
         Action("SET_SEARCH_RESULTS", << >>))

\* the part of searchBooks after the awaited call has settled
SearchSettled(state, outcome) ==
  IF outcome.kind = "resolved"
  THEN IF ~outcome.items.has \/ Len(outcome.items.val) = 0
       THEN bookCollectionReducer(
              bookCollectionReducer(state, Action("SET_SEARCH_RESULTS", << >>)),
              Action("SET_ERROR", NoBooksMessage))
       ELSE bookCollectionReducer(
              state, Action("SET_SEARCH_RESULTS", MapItems(outcome.items.val)))
  ELSE bookCollectionReducer(
         bookCollectionReducer(
           state,
           Action("SET_ERROR",
                  IF outcome.kind = "rejected with Error"
                  THEN outcome.message ELSE UnknownErrorMessage)),
         Action("SET_SEARCH_RESULTS", << >>))

\* String.prototype.trim: whitespace pieces are dropped from both ends
IsSpace(piece) == piece \in {" ", "\t"}

RECURSIVE TrimStart(_)
TrimStart(s) ==
  IF s # << >> /\ IsSpace(Head(s)) THEN TrimStart(Tail(s)) ELSE s

RECURSIVE TrimEnd(_)
TrimEnd(s) ==
  IF s # << >> /\ IsSpace(s[Len(s)])
  THEN TrimEnd(SubSeq(s, 1, Len(s) - 1)) ELSE s

\* a trim that keeps the whitespace
TrimKeepingWhitespace(s) == s

Trim(s) == TrimEnd(TrimStart(s))

\* queries typed into the search box
Queries == { << >>, << " ", " " >>, << " ", "clean", " " >> }

(***************************************************************************)
(* The store: BookCollectionProvider.                                      *)
(***************************************************************************)
VARIABLES
  state,         \* the reducer state held by useReducer
  localStorage,  \* the item under STORAGE_KEY
  quota,         \* capacity of the storage, in tokens of text
  denied,        \* whether the browser denies the page its storage
  mounted,       \* whether the provider is mounted (the page is open)
  inflight,      \* the searchBooks calls awaiting their response, oldest first
  written,       \* the books array of the last setItem that was accepted
  last,          \* the call or event handled last, with its arguments
  call,          \* the call of a function examined on its own: name,
                 \* arguments and what it returned or threw
  page           \* the local state of the BookDetailsPage, when it is open

vars ==
  << state, localStorage, quota, denied, mounted, inflight, written, last,
     call, page >>

\* no function is examined on its own
NoCall == [fn |-> "none", args |-> << >>, result |-> << >>]

\* the details page is not open.  While it is open: the route parameter id,
\* the useState values book, isLoading, error and selectedStatus, the ids
\* of the getBookById calls awaiting their response, and the ids getBookById
\* was called with by the step handled last
NoPage ==
  [ open |-> FALSE, id |-> << >>, book |-> None, isLoading |-> FALSE,
    error |-> null, selectedStatus |-> Str("want-to-read"),
    pending |-> << >>, called |-> << >> ]

\* sequences of at most n books with pairwise different ids
RECURSIVE Collections(_)
Collections(n) ==
  IF n = 0 THEN { << >> }
  ELSE LET shorter == Collections(n - 1) IN
       shorter \cup
       { Append(c, b) : c \in { x \in shorter : Len(x) = n - 1 },
                        b \in Books } 

UniqueIds(books) ==
  \A i, j \in DOMAIN books : books[i].id = books[j].id => i = j

\* texts the slot may hold that no save effect wrote: the empty string,
\* 'invalid json' and a truncated array, which JSON.parse rejects;
\* '{}', 'null', '"codecaddy"' and a single book object, which are no arrays;
\* '[null]', an array whose element has no properties to read
UnparseableTexts ==
  { << >>,
    << L("invalid"), L("json") >>,
    << P("["), P("{"), K("id"), P(":") >> }

NonArrayTexts ==
  { << P("{"), P("}") >>,
    << L("null") >>,
    << S(Str("codecaddy")) >>,
    StringifyBook(CHOOSE b \in Books : TRUE) }

MalformedTexts ==
  UnparseableTexts \cup NonArrayTexts \cup { << P("["), L("null"), P("]") >> }

\* what kind of item the provider finds when it mounts
ItemKind(item) ==
  IF ~item.present THEN "absent"
  ELSE IF item.text \in UnparseableTexts THEN "unparseable"
  ELSE IF item.text \in NonArrayTexts THEN "not an array"
  ELSE "array"

\* what the slot holds when the application is opened for the first time on
\* this browser profile: nothing, a damaged text, or the text an earlier
\* session saved
InitialItems ==
  { NoItem } \cup { Item(text) : text \in MalformedTexts }
  \cup { Item(JSONstringify(c)) :
           c \in { x \in Collections(MaxStored) : UniqueIds(x) } }

NoBook == Book(<< >>, [ title |-> << >>, author |-> << >>,
                        publishedDate |-> << >>, description |-> << >>,
                        thumbnail |-> << >> ], << >>)

\* ids passed to removeBook and updateBookStatus: those of the catalog and
\* one that is never added
ArgIds == Ids \cup { Str("unknown") }

\* no response: the call handled last was not the settling of a search
NoResponse == [kind |-> "none", items |-> None, message |-> << >>]

\* the record of a handled call: its name, its arguments (the book, and the
\* id or the query), whether the id was in books (for mount: whether an
\* earlier save of this store was accepted; for a settled search: whether
\* a search issued after it had settled before it), what setItem did (for
\* a settled search: how the call ended), the kind of item a mount found,
\* the response a settled search received, and the action a bare dispatch
\* handed to the reducer
Event(op, book, id, hit, outcome) ==
  [ op |-> op, book |-> book, id |-> id, hit |-> hit, outcome |-> outcome,
    found |-> IF op = "mount" THEN ItemKind(localStorage) ELSE "",
    response |-> NoResponse,
    action |-> Action("none", << >>) ]

\* a searchBooks call awaiting its response: its query, and whether a call
\* issued after it has already settled
Pending(query) == [query |-> query, overtaken |-> FALSE]

\* the pending calls once the i-th has settled: those issued before it are
\* now behind a later one
AfterSettling(pending, i) ==
  [ j \in 1..(Len(pending) - 1) |->
      IF j < i THEN [pending[j] EXCEPT !.overtaken = TRUE]
      ELSE pending[j + 1] ]

HasId(books, id) == \E i \in DOMAIN books : books[i].id = id

Init ==
  /\ state = initialState
  /\ localStorage \in InitialItems
  /\ quota \in { Capacity(k) : k \in 1..MaxQuota }
  /\ Len(localStorage.text) <= quota
  /\ denied \in BOOLEAN
  /\ denied => localStorage = NoItem /\ quota = Capacity(MaxQuota)
  /\ mounted = FALSE
  /\ inflight = << >>
  /\ written = None
  /\ last = Event("none", NoBook, << >>, FALSE, "none")
  /\ call = NoCall
  /\ page = NoPage

\* a dispatch that replaces state.books, the render and the save effect
\* that follow it
Commit(next, op, book, id, hit) ==
  \E outcome \in SetItemOutcomes(JSONstringify(next.books), quota, denied) :
    LET r == SaveEffect(next, localStorage, outcome) IN
    /\ state' = r.state
    /\ localStorage' = r.item
    /\ written' = IF outcome = "stored" THEN Some(next.books) ELSE written
    /\ last' = Event(op, book, id, hit, outcome)

\* the provider mounts: useReducer(reducer, undefined, loadInitialState),
\* first render, first run of the save effect
Mount ==
  /\ ~mounted
  /\ mounted' = TRUE
  /\ Commit(loadInitialState(localStorage, denied), "mount", NoBook, << >>,
            written.has)
  /\ UNCHANGED << quota, denied, inflight, call, page >>

\* the page is closed or reloaded: the in-memory state and the pending
\* calls are gone, the slot stays
Unmount ==
  /\ mounted
  /\ mounted' = FALSE
  /\ state' = initialState
  /\ inflight' = << >>
  /\ last' = Event("unmount", NoBook, << >>, FALSE, "none")
  /\ UNCHANGED << localStorage, quota, denied, written, call, page >>

addBook(book) ==
  /\ mounted
  /\ Commit(bookCollectionReducer(state, Action("ADD_BOOK", book)),
            "addBook", book, book.id, HasId(state.books, book.id))
  /\ UNCHANGED << quota, denied, mounted, inflight, call, page >>

removeBook(bookId) ==
  /\ mounted
  /\ Commit(bookCollectionReducer(state, Action("REMOVE_BOOK", bookId)),
            "removeBook", NoBook, bookId, HasId(state.books, bookId))
  /\ UNCHANGED << quota, denied, mounted, inflight, call, page >>

updateBookStatus(bookId, status) ==
  /\ mounted
  /\ Commit(bookCollectionReducer(
              state,
              Action("UPDATE_BOOK_STATUS", [id |-> bookId, status |-> status])),
            "updateBookStatus", Book(bookId, NoBook, status), bookId,
            HasId(state.books, bookId))
  /\ UNCHANGED << quota, denied, mounted, inflight, call, page >>

\* searchBooks up to its first await
searchBooks(query) ==
  /\ mounted
  /\ IF Trim(query) = << >>
     THEN /\ state' = bookCollectionReducer(state, Action("CLEAR_SEARCH", << >>))
          /\ inflight' = inflight
     ELSE /\ Len(inflight) < MaxInflight
          /\ state' = bookCollectionReducer(state, Action("SET_LOADING", TRUE))
          /\ inflight' = Append(inflight, Pending(query))
  /\ last' = Event("searchBooks", NoBook, query, FALSE, "none")
  /\ UNCHANGED << localStorage, quota, denied, mounted, written, call, page >>

\* the search form is submitted; its button is disabled while isLoading
handleSearch(query) ==
  /\ mounted
  /\ ~state.isLoading
  /\ IF Trim(query) # << >> THEN searchBooks(query) ELSE UNCHANGED vars

\* the awaited call of the i-th pending searchBooks settles
searchBooksSettles(i, outcome) ==
  /\ mounted
  /\ i \in DOMAIN inflight
  /\ state' = SearchSettled(state, outcome)
  /\ inflight' = AfterSettling(inflight, i)
  /\ last' = [ Event("searchBooks settles", NoBook, inflight[i].query,
                     inflight[i].overtaken, outcome.kind)
               EXCEPT !.response = outcome ]
  /\ UNCHANGED << localStorage, quota, denied, mounted, written, call, page >>

clearSearch ==
  /\ mounted
  /\ state' = bookCollectionReducer(state, Action("CLEAR_SEARCH", << >>))
  /\ last' = Event("clearSearch", NoBook, << >>, FALSE, "none")
  /\ UNCHANGED << localStorage, quota, denied, mounted, inflight, written,
                  call, page >>

Next ==
  \/ Mount
  \/ Unmount
  \/ \E book \in Books : addBook(book)
  \/ \E bookId \in ArgIds : removeBook(bookId)
  \/ \E bookId \in ArgIds, status \in BookStatus :
       updateBookStatus(bookId, status)
  \/ \E query \in Queries : searchBooks(query)
  \/ \E query \in Queries : handleSearch(query)
  \/ \E i \in 1..MaxInflight, outcome \in ApiOutcomes :
       searchBooksSettles(i, outcome)
  \/ clearSearch

Spec == Init /\ [][Next]_vars

(***************************************************************************)
(* The reducer alone, under every action it accepts.                       *)
(***************************************************************************)
ReducerActions ==
  { Action("ADD_BOOK", b) : b \in Books }
  \cup { Action("REMOVE_BOOK", id) : id \in ArgIds }
  \cup { Action("UPDATE_BOOK_STATUS", [id |-> id, status |-> st]) :
           id \in ArgIds, st \in BookStatus }
  \cup { Action("SET_SEARCH_RESULTS", r) :
           r \in { << >>, MapItems(<< ItemBare, ItemFull >>) } }
  \cup { Action("SET_LOADING", f) : f \in BOOLEAN }
  \cup { Action("SET_ERROR", m) : m \in { null, NoBooksMessage, QuotaMessage } }
  \cup { Action("CLEAR_SEARCH", << >>) }
  \cup { Action("LOAD_FROM_STORAGE", c) :
           c \in { x \in Collections(MaxStored) : UniqueIds(x) } }
  \cup { Action("UNKNOWN", << >>) }

InitReducer ==
  /\ state \in { loadInitialState(item, FALSE) : item \in InitialItems }
  /\ localStorage = NoItem
  /\ quota = Capacity(MaxQuota)
  /\ denied = FALSE
  /\ mounted = TRUE
  /\ inflight = << >>
  /\ written = None
  /\ last = Event("none", NoBook, << >>, FALSE, "none")
  /\ call = NoCall
  /\ page = NoPage

\* the id an action of the collection is about
ActionId(action) ==
  CASE action.type = "ADD_BOOK" -> action.payload.id
    [] action.type = "REMOVE_BOOK" -> action.payload
    [] action.type = "UPDATE_BOOK_STATUS" -> action.payload.id
    [] OTHER -> << >>

dispatch(action) ==
  /\ state' = bookCollectionReducer(state, action)
  /\ last' = [ Event(action.type, NoBook, ActionId(action),
                     HasId(state.books, ActionId(action)), "none")
               EXCEPT !.action = action ]
  /\ UNCHANGED << localStorage, quota, denied, mounted, inflight, written,
                  call, page >>

NextReducer == \E action \in ReducerActions : dispatch(action)

SpecReducer == InitReducer /\ [][NextReducer]_vars

(***************************************************************************)
(* Properties of the collection.                                           *)
(***************************************************************************)
Mutators == {"addBook", "removeBook", "updateBookStatus"}

InSeq(x, s) == \E i \in DOMAIN s : s[i] = x

ViewOf(st, status) ==
  CASE status = Str("want-to-read") -> st.wantToRead
    [] status = Str("currently-reading") -> st.currentlyReading
    [] status = Str("have-read") -> st.haveRead

\* filter(books, status == X): the records of that status, in the order of books
RECURSIVE OfStatus(_, _)
OfStatus(books, status) ==
  IF books = << >> THEN << >>
  ELSE IF Head(books).status = status
       THEN << Head(books) >> \o OfStatus(Tail(books), status)
       ELSE OfStatus(Tail(books), status)

\* the records of books whose id is not the given one, in the order of books
RECURSIVE WithoutId(_, _)
WithoutId(books, id) ==
  IF books = << >> THEN << >>
  ELSE IF Head(books).id = id THEN WithoutId(Tail(books), id)
       ELSE << Head(books) >> \o WithoutId(Tail(books), id)

\* C1: after any sequence of addBook, removeBook and updateBookStatus calls
\* the three views partition books: a record of books is in the view of its
\* status and in no other, the views hold nothing that is not in books, and
\* together they hold as many records as books.
C1_ViewsPartitionBooks ==
  /\ \A i \in DOMAIN state.books : \A s \in BookStatus :
       InSeq(state.books[i], ViewOf(state, s)) <=> state.books[i].status = s
  /\ \A s \in BookStatus : \A j \in DOMAIN ViewOf(state, s) :
       InSeq(ViewOf(state, s)[j], state.books)
  /\ Len(state.wantToRead) + Len(state.currentlyReading) + Len(state.haveRead)
       = Len(state.books)

\* an updateBookStatus call has moved a record between views of a
\* collection of two books with different statuses
C1_Witness ==
  /\ last.op = "updateBookStatus" /\ last.hit
  /\ Len(state.books) = 2
  /\ state.books[1].status # state.books[2].status

\* C2: in every state the reducer can reach, from the initial or the loaded
\* state and under all eight actions, each stored view is the filter of
\* books by its status, in the order of books.
C2_ViewsAreFiltersOfBooks ==
  /\ state.wantToRead = OfStatus(state.books, Str("want-to-read"))
  /\ state.currentlyReading = OfStatus(state.books, Str("currently-reading"))
  /\ state.haveRead = OfStatus(state.books, Str("have-read"))

\* a search action was reduced while a view holds two books
C2_Witness ==
  /\ last.op \in {"SET_SEARCH_RESULTS", "SET_ERROR", "SET_LOADING", "CLEAR_SEARCH"}
  /\ \E s \in BookStatus : Len(ViewOf(state, s)) = 2

C4_AddReplacesSameId ==
  [][ (last'.op = "addBook" /\ last'.hit) =>
        /\ Len(state'.books) = Len(state.books)
        /\ Cardinality({ i \in DOMAIN state'.books :
                           state'.books[i].id = last'.book.id }) = 1
        /\ \A i \in DOMAIN state'.books :
             state'.books[i].id = last'.book.id =>
               \A k \in DOMAIN last'.book :
                 state'.books[i][k] = last'.book[k] ]_vars

\* a present id was added again with another title than the one removed
C4_Witness ==
  /\ last.op = "addBook" /\ last.hit
  /\ last.book.title = Str("Clean Code 2e")
  /\ written.has /\ localStorage.present
  /\ \E i \in DOMAIN state.books :
       state.books[i].id = last.book.id /\ state.books[i] = last.book

\* C5: updateBookStatus for an id that is not in books leaves every field
\* of the state as it was.
C5_UpdateOfAbsentIdChangesNothing ==
  [][ (last'.op = "updateBookStatus" /\ ~last'.hit) => state' = state ]_vars

\* C6: removeBook gives books without the records of that id, the others
\* kept as they were and in their order; with no such record books is kept.
C6_RemoveFiltersOutTheId ==
  [][ last'.op = "removeBook" =>
        /\ state'.books = WithoutId(state.books, last'.id)
        /\ ~last'.hit => state'.books = state.books ]_vars

\* a book was removed and another one stayed
C6_Witness ==
  last.op = "removeBook" /\ last.hit /\ Len(state.books) = 1

\* C7: a mount that follows an accepted save loads exactly the books that
\* were saved, same records in the same order.
C7_LoadAfterSaveRoundTrips ==
  [][ (last'.op = "mount" /\ last'.hit) => state'.books = written.val ]_vars

\* the provider was mounted again on a slot this store saved two books to
C7_Witness ==
  last.op = "mount" /\ last.hit /\ Len(state.books) = 2

\* C8: a mount that finds no item, a text that does not parse or a text
\* that is no array starts from the initial state: no books, empty views,
\* no search results, not loading, no error.
C8_UnusableSlotStartsEmpty ==
  [][ (last'.op = "mount"
         /\ last'.found \in {"absent", "unparseable", "not an array"}) =>
        /\ state'.books = << >>
        /\ state'.wantToRead = << >>
        /\ state'.currentlyReading = << >>
        /\ state'.haveRead = << >>
        /\ state'.searchResults = << >>
        /\ state'.isLoading = FALSE
        /\ state'.error = null ]_vars

\* the provider was mounted on a text JSON.parse rejects
C8_Witness == last.op = "mount" /\ last.found = "unparseable"

\* C9: after an addBook, removeBook or updateBookStatus call whose write
\* the storage accepted, the slot holds the serialization of the books
\* that call produced.
C9_MutationIsPersisted ==
  (last.op \in Mutators /\ last.outcome = "stored") =>
    /\ localStorage.present
    /\ JSONparse(localStorage.text).ok
    /\ JSONparse(localStorage.text).val = state.books
    /\ localStorage.text = JSONstringify(state.books)

\* a removal emptied the collection and the empty array was stored
C9_Witness ==
  /\ last.op = "removeBook" /\ last.hit /\ last.outcome = "stored"
  /\ state.books = << >>

\* C10: mounting the provider writes nothing to the slot.
C10_MountWritesNothing ==
  [][ last'.op = "mount" => localStorage' = localStorage ]_vars

(***************************************************************************)
(* Properties of persistence and of the search cycle.                      *)
(***************************************************************************)
\* a query that is empty or holds nothing but whitespace
IsBlank(query) == \A i \in DOMAIN query : query[i] \in {" ", "\t"}

\* searches, their settling and clearSearch
SearchOps == {"searchBooks", "searchBooks settles", "clearSearch"}

\* the property names of a saved record are those of a Book and no others
OnlyBooks(item) ==
  item.present =>
    LET r == JSONparse(item.text) IN
    /\ IsArray(r)
    /\ \A i \in DOMAIN r.val : DOMAIN r.val[i] = { BookKeys[k] : k \in DOMAIN BookKeys }

\* C11: only books is persisted. A search, the settling of a search and
\* clearSearch leave the slot as it was; whenever the slot changes, its new
\* text is the serialization of the books array and of nothing else, so it
\* decodes to an array of book records; and a store that has just mounted
\* has no search results, is not loading and has no error, whatever the
\* search state of the session before.
C11_OnlyBooksArePersisted ==
  [][ /\ last'.op \in SearchOps => localStorage' = localStorage
      /\ localStorage' # localStorage =>
           /\ localStorage' = Item(JSONstringify(state'.books))
           /\ OnlyBooks(localStorage')
      /\ last'.op = "mount" =>
           /\ state'.searchResults = << >>
           /\ state'.isLoading = FALSE
           /\ state'.error = null ]_vars

\* a search has settled with results while the slot holds the saved books
C11_Witness ==
  /\ last.op = "searchBooks settles"
  /\ state.searchResults # << >>
  /\ Len(state.books) >= 1
  /\ localStorage = Item(JSONstringify(state.books))

\* books with the status of the record of the given id set to status
WithStatus(books, id, status) ==
  [ i \in DOMAIN books |->
      IF books[i].id = id THEN [books[i] EXCEPT !.status = status]
      ELSE books[i] ]

\* what the call recorded in ev makes of books
Mutated(books, ev) ==
  CASE ev.op = "addBook" -> WithoutId(books, ev.book.id) \o << ev.book >>
    [] ev.op = "removeBook" -> WithoutId(books, ev.id)
    [] ev.op = "updateBookStatus" -> WithStatus(books, ev.id, ev.book.status)

\* C12: when setItem rejects the write that follows an addBook, removeBook
\* or updateBookStatus with a QuotaExceededError, the slot keeps the text it
\* had, books and the three views hold the result of the mutation, and error
\* is a message.
C12_QuotaFailureKeepsMutation ==
  [][ (last'.op \in Mutators /\ last'.outcome = "QuotaExceededError") =>
        /\ localStorage' = localStorage
        /\ state'.books = Mutated(state.books, last')
        /\ \A s \in BookStatus : ViewOf(state', s) = OfStatus(state'.books, s)
        /\ state'.error # null
        /\ state'.error # << >> ]_vars

\* an addBook whose write was rejected: two books in memory, one in the slot
C12_Witness ==
  /\ last.op = "addBook"
  /\ last.outcome = "QuotaExceededError"
  /\ state.books = Mutated(written.val, last)
  /\ Len(state.books) = 2
  /\ localStorage = Item(JSONstringify(written.val))
  /\ Len(written.val) = 1
  /\ state.error = QuotaMessage

\* the message searchBooks reports for a call that was rejected
FailureMessage(response) ==
  IF response.kind = "rejected with Error" THEN response.message
  ELSE Str("An unknown error occurred while searching")

\* C13: once a search whose call was rejected has finished, error holds the
\* failure message, searchResults is empty and isLoading is false.
C13_SearchFailureIsSurfaced ==
  (last.op = "searchBooks settles"
     /\ last.response.kind \in {"rejected with Error", "rejected with non-Error"}) =>
    /\ state.error = FailureMessage(last.response)
    /\ state.error # null
    /\ state.searchResults = << >>
    /\ state.isLoading = FALSE

\* C14: once a search whose call resolved with no items, or with no items
\* property, has finished, searchResults is empty, error is "No books found
\* matching your search." and isLoading is false.
C14_EmptyResponseIsReported ==
  (last.op = "searchBooks settles" /\ last.response.kind = "resolved"
     /\ (~last.response.items.has \/ last.response.items.val = << >>)) =>
    /\ state.searchResults = << >>
    /\ state.error = Str("No books found matching your search.")
    /\ state.error # null
    /\ state.isLoading = FALSE

\* a response without an items property has been handled, no call pending
C14_Witness ==
  /\ last.op = "searchBooks settles"
  /\ last.response = Resolved(None)
  /\ inflight = << >>
  /\ state.error = NoBooksMessage

\* C15: searchBooks with an empty or whitespace-only query starts no call
\* of the collaborator and leaves isLoading as it was (so never makes it
\* true); it empties searchResults and clears error, and leaves books and
\* the views alone.  Submitting the search form with such a query changes
\* nothing at all.
C15_BlankQueryStartsNoSearch ==
  [][ /\ (last'.op = "searchBooks" /\ IsBlank(last'.id)) =>
           /\ inflight' = inflight
           /\ state'.isLoading = state.isLoading
           /\ state'.searchResults = << >>
           /\ state'.error = null
           /\ state'.books = state.books
           /\ \A s \in BookStatus : ViewOf(state', s) = ViewOf(state, s)
      /\ \A query \in Queries :
           (IsBlank(query) /\ handleSearch(query)) => UNCHANGED vars ]_vars

\* a whitespace-only searchBooks while an earlier search is pending and the
\* collection is not empty
C15_Witness ==
  /\ last.op = "searchBooks"
  /\ last.id = << " ", " " >>
  /\ Len(inflight) = 1
  /\ state.isLoading
  /\ state.books # << >>

\* C16: once a search whose call resolved with one or more items has
\* finished, searchResults has one record per item, in the order of the
\* items, each the image of its item under mapGoogleBookToBook with status
\* want-to-read, whether or not a book of that id is in the collection;
\* error is null and isLoading is false.
C16_ResultsAreTheMappedItems ==
  (last.op = "searchBooks settles" /\ last.response.kind = "resolved"
     /\ last.response.items.has /\ Len(last.response.items.val) >= 1) =>
    LET items == last.response.items.val IN
    /\ Len(state.searchResults) = Len(items)
    /\ \A i \in 1..Len(items) :
         /\ state.searchResults[i] =
              mapGoogleBookToBook(items[i], Str("want-to-read"))
         /\ state.searchResults[i].id = items[i].id
         /\ state.searchResults[i].status = Str("want-to-read")
    /\ state.error = null
    /\ state.isLoading = FALSE

\* two items came back; the book of the second is in the collection as
\* have-read and is listed as want-to-read
C16_Witness ==
  /\ last.op = "searchBooks settles"
  /\ last.response = Resolved(Some(<< ItemBare, ItemFull >>))
  /\ Len(state.searchResults) = 2
  /\ state.searchResults[2].id = ItemFull.id
  /\ \E i \in DOMAIN state.books :
       /\ state.books[i].id = ItemFull.id
       /\ state.books[i].status = Str("have-read")

\* C17: in the state that follows a searchBooks call with a query that is
\* not blank, before anything else has happened, isLoading is true.
C17_LoadingRightAfterSearch ==
  (last.op = "searchBooks" /\ ~IsBlank(last.id)) =>
    /\ state.isLoading = TRUE
    /\ inflight # << >>

\* a second search has just been issued while the first is pending
C17_Witness ==
  /\ last.op = "searchBooks"
  /\ last.id = << " ", "clean", " " >>
  /\ Len(inflight) = 2
  /\ state.isLoading

\* some pending searchBooks call gets its response
Settle ==
  \E i \in 1..MaxInflight, outcome \in ApiOutcomes :
    searchBooksSettles(i, outcome)

\* a browser profile that opens the application for the first time, with
\* room for one record in its storage
InitFresh ==
  /\ Init
  /\ localStorage = NoItem
  /\ quota = Capacity(1)
  /\ denied = FALSE

\* the store under the assumption that the collaborator answers: a call
\* that is pending does not stay pending forever
SpecResponsive == InitFresh /\ [][Next]_vars /\ WF_vars(Settle)

\* C18: a search cycle ends.  Provided pending calls are answered, every
\* state that follows a searchBooks call with a query that is not blank is
\* followed by a state in which isLoading is false; and in every state in
\* which no call is pending isLoading is false.
C18_SearchCycleTerminates ==
  /\ [](inflight = << >> => state.isLoading = FALSE)
  /\ (last.op = "searchBooks" /\ ~IsBlank(last.id)) ~> (state.isLoading = FALSE)

\* the last pending call has been answered and the store is idle again
C18_Witness ==
  /\ last.op = "searchBooks settles"
  /\ last.response \in ApiOutcomes
  /\ inflight = << >>
  /\ state.isLoading = FALSE

\* what a store in which no other search was ever made holds after the
\* given response
Alone(response) == SearchSettled(initialState, response)

\* C19: searches overlap and the response handled last wins.  A searchBooks
\* issued while another is pending starts its own cycle: isLoading is set
\* and its call is pending next to the other.  And when a response is
\* handled, searchResults and error become what that response alone
\* produces, whatever responses were handled before and whichever search
\* was issued first.
C19_LastResponseWins ==
  [][ /\ (last'.op = "searchBooks" /\ ~IsBlank(last'.id) /\ inflight # << >>) =>
           /\ state'.isLoading = TRUE
           /\ inflight' = Append(inflight, Pending(last'.id))
      /\ last'.op = "searchBooks settles" =>
           /\ state'.searchResults = Alone(last'.response).searchResults
           /\ state'.error = Alone(last'.response).error ]_vars

\* both searches have been answered; the one issued first was answered
\* last, and its results are the ones shown
C19_Witness ==
  /\ last.op = "searchBooks settles"
  /\ last.hit
  /\ inflight = << >>
  /\ last.response = Resolved(Some(<< ItemBare, ItemFull >>))
  /\ state.searchResults = MapItems(<< ItemBare, ItemFull >>)
  /\ state.error = null

\* C20: clearSearch empties searchResults and sets error to null, whatever
\* they were, and leaves books, the three views and isLoading as they were.
C20_ClearSearchClearsSearchOnly ==
  [][ last'.op = "clearSearch" =>
        /\ state'.searchResults = << >>
        /\ state'.error = null
        /\ state'.books = state.books
        /\ \A s \in BookStatus : ViewOf(state', s) = ViewOf(state, s)
        /\ state'.isLoading = state.isLoading ]_vars

\* clearSearch was called while a search was pending and books were held
C20_Witness ==
  /\ last.op = "clearSearch"
  /\ state.isLoading
  /\ inflight # << >>
  /\ state.books # << >>
  /\ state.searchResults = << >>

(***************************************************************************)
(* The accessor of the context and the collection page.                    *)
(***************************************************************************)
\* getBooksByStatus: state.books.filter(book => book.status === status)
getBooksByStatus(books, status) ==
  SelectSeq(books, LAMBDA book : book.status = status)

\* the filters of the collection page
Filters == { Str("all") } \cup BookStatus

\* CollectionPage.getFilteredBooks: the books listed under a tab
getFilteredBooks(st, filter) ==
  IF filter = Str("all") THEN st.books
  ELSE SelectSeq(st.books, LAMBDA book : book.status = filter)

\* the count shown on a tab of the collection page
TabCount(st, filter) ==
  CASE filter = Str("all") -> Len(st.books)
    [] filter = Str("currently-reading") -> Len(st.currentlyReading)
    [] filter = Str("want-to-read") -> Len(st.wantToRead)
    [] filter = Str("have-read") -> Len(st.haveRead)

\* C21: in every reachable state getBooksByStatus(status) returns the
\* stored array of that status, record for record, and the count on each
\* tab of the collection page is the number of books listed under it.
C21_AccessorEqualsStoredView ==
  /\ getBooksByStatus(state.books, Str("want-to-read")) = state.wantToRead
  /\ getBooksByStatus(state.books, Str("currently-reading"))
       = state.currentlyReading
  /\ getBooksByStatus(state.books, Str("have-read")) = state.haveRead
  /\ \A filter \in Filters :
       TabCount(state, filter) = Len(getFilteredBooks(state, filter))

\* after a status change the collection holds a have-read book and a
\* currently-reading book, each listed under its own tab
C21_Witness ==
  /\ last.op = "updateBookStatus"
  /\ last.hit
  /\ Len(state.books) = 2
  /\ Len(getBooksByStatus(state.books, Str("have-read"))) = 1
  /\ Len(getBooksByStatus(state.books, Str("currently-reading"))) = 1
  /\ state.books[1].status = Str("have-read")

(***************************************************************************)
(* Properties of the reducer, action by action.                            *)
(***************************************************************************)
\* the position of the record of the given id in books (0: none)
PositionOf(books, id) ==
  IF \E i \in DOMAIN books : books[i].id = id
  THEN CHOOSE i \in DOMAIN books : books[i].id = id
  ELSE 0

\* C22: UPDATE_BOOK_STATUS for an id that is in books changes the status of
\* that record and nothing else: books keeps its length, the record keeps
\* its position and its other fields, the other records are the same, and
\* the record is in the view of the new status and in no other view.
C22_UpdateChangesOnlyTheStatus ==
  [][ (last'.op = "UPDATE_BOOK_STATUS"
         /\ HasId(state.books, last'.action.payload.id)) =>
        LET id == last'.action.payload.id
            status == last'.action.payload.status
            k == PositionOf(state.books, id)
        IN
        /\ Len(state'.books) = Len(state.books)
        /\ state'.books[k] = [ state.books[k] EXCEPT !.status = status ]
        /\ \A i \in DOMAIN state.books :
             i # k => state'.books[i] = state.books[i]
        /\ \A s \in BookStatus :
             HasId(ViewOf(state', s), id) <=> s = status
        /\ InSeq(state'.books[k], ViewOf(state', status)) ]_vars

\* the first of two books has been given the status have-read: haveRead
\* holds it alone and wantToRead holds the other
C22_Witness ==
  /\ last.op = "UPDATE_BOOK_STATUS"
  /\ last.action.payload.status = Str("have-read")
  /\ Len(state.books) = 2
  /\ state.books[1].id = last.action.payload.id
  /\ state.haveRead = << state.books[1] >>
  /\ state.wantToRead = << state.books[2] >>

(***************************************************************************)
(* Functions called on their own: the mapping adapter.                     *)
(***************************************************************************)
\* how a call ends: with a value, or with an Error of some message
Returned(value) == [ok |-> TRUE, value |-> value, message |-> << >>]
Threw(message) == [ok |-> FALSE, value |-> << >>, message |-> message]

\* the store does not take part in these calls
Store == << state, localStorage, quota, denied, mounted, inflight, written, last >>

InitCalls ==
  /\ state = initialState
  /\ localStorage = NoItem
  /\ quota = Capacity(MaxQuota)
  /\ denied = FALSE
  /\ mounted = FALSE
  /\ inflight = << >>
  /\ written = None
  /\ last = Event("none", NoBook, << >>, FALSE, "none")
  /\ call = NoCall
  /\ page = NoPage

\* items of the GoogleBookItem type: id and title are there, every other
\* property is there or not, and a string that is there may be empty
ExternalItems ==
  { GoogleBookItem(id, Str("Test Book"), authors, publishedDate, description,
                   imageLinks) :
      id \in { Str("test-id"), Str("mock1") },
      authors \in { None, Some(<< >>), Some(<< << >> >>),
                    Some(<< Str("Single Author") >>),
                    Some(<< Str("Author One"), Str("Author Two") >>) },
      publishedDate \in { None, Some(<< >>), Some(Str("2021-01-01")) },
      description \in { None, Some(<< >>), Some(Str("This is a test book")) },
      imageLinks \in
        { None, Some([thumbnail |-> None]), Some([thumbnail |-> Some(<< >>)]),
          Some([thumbnail |-> Some(Str("https://example.com/thumbnail.jpg"))]) } }

\* the status argument: omitted, or one of the three statuses
StatusArguments == { None } \cup { Some(s) : s \in BookStatus }

\* mapGoogleBookToBook(item) and mapGoogleBookToBook(item, status); the
\* parameter defaults to 'want-to-read'
mapGoogleBookToBookCalled(item, status) ==
  /\ call' =
       [ fn |-> "mapGoogleBookToBook",
         args |-> [item |-> item, status |-> status],
         result |->
           Returned(mapGoogleBookToBook(
                      item,
                      IF status.has THEN status.val ELSE Str("want-to-read"))) ]
  /\ UNCHANGED << Store, page >>

NextMapper ==
  \E item \in ExternalItems, status \in StatusArguments :
    mapGoogleBookToBookCalled(item, status)

SpecMapper == InitCalls /\ [][NextMapper]_vars

\* C23: the mapping never fails, and a property that is missing becomes its
\* default: the author is "Unknown Author" when the author list is absent
\* or empty, the date "Unknown Date", the description "No description
\* available" and the thumbnail the placeholder address when absent (the
\* thumbnail also when imageLinks is there without one).
C23_MissingFieldsGetDefaults ==
  call.fn = "mapGoogleBookToBook" =>
    LET info == call.args.item.volumeInfo
        book == call.result.value
    IN
    /\ call.result.ok
    /\ DOMAIN book = { BookKeys[k] : k \in DOMAIN BookKeys }
    /\ (~info.authors.has \/ info.authors.val = << >>) =>
         book.author = Str("Unknown Author")
    /\ ~info.publishedDate.has => book.publishedDate = Str("Unknown Date")
    /\ ~info.description.has =>
         book.description = Str("No description available")
    /\ (~info.imageLinks.has \/ ~info.imageLinks.val.thumbnail.has) =>
         book.thumbnail =
           Str("https://via.placeholder.com/128x192.png?text=No+Cover")

\* an item with an empty author list and nothing else has been mapped
C23_Witness ==
  /\ call.fn = "mapGoogleBookToBook"
  /\ call.args.item.volumeInfo.authors = Some(<< >>)
  /\ ~call.args.item.volumeInfo.publishedDate.has
  /\ ~call.args.item.volumeInfo.description.has
  /\ ~call.args.item.volumeInfo.imageLinks.has
  /\ call.result.value.author = Str("Unknown Author")

\* the strings of a list one after the other, ", " between neighbours
RECURSIVE CommaSeparated(_)
CommaSeparated(strs) ==
  IF Len(strs) = 0 THEN << >>
  ELSE IF Len(strs) = 1 THEN strs[1]
  ELSE CommaSeparated(SubSeq(strs, 1, Len(strs) - 1))
         \o << ", " >> \o strs[Len(strs)]

\* the status a call of the mapping asks for
AskedStatus(args) ==
  IF args.status.has THEN args.status.val ELSE Str("want-to-read")

\* C24: id and title are copied; a date, a description or a thumbnail that
\* is present is the mapped field; an author list that is not empty is
\* joined in order with ", "; status is the argument, want-to-read when
\* omitted.
C24_PresentDataPassesThrough ==
  call.fn = "mapGoogleBookToBook" =>
    LET info == call.args.item.volumeInfo
        book == call.result.value
    IN
    /\ book.id = call.args.item.id
    /\ book.title = info.title
    /\ info.publishedDate.has => book.publishedDate = info.publishedDate.val
    /\ info.description.has => book.description = info.description.val
    /\ (info.imageLinks.has /\ info.imageLinks.val.thumbnail.has) =>
         book.thumbnail = info.imageLinks.val.thumbnail.val
    /\ (info.authors.has /\ Len(info.authors.val) >= 1) =>
         book.author = CommaSeparated(info.authors.val)
    /\ book.status = AskedStatus(call.args)

\* a value of the BookCollectionState type
IsState(st) ==
  /\ DOMAIN st = { "books", "searchResults", "isLoading", "error",
                   "currentlyReading", "wantToRead", "haveRead" }
  /\ st.isLoading \in BOOLEAN
  /\ \A f \in { "books", "searchResults", "currentlyReading", "wantToRead",
                "haveRead" } :
       /\ DOMAIN st[f] = 1..Len(st[f])
       /\ \A i \in DOMAIN st[f] :
            DOMAIN st[f][i] = { BookKeys[k] : k \in DOMAIN BookKeys }

\* C25: the reducer is total.  Every dispatch, of any action in any state,
\* gives a state (the reducer does not throw), and the dispatch of an
\* action whose type the reducer does not know gives the state it was
\* handed.
C25_ReducerIsTotal ==
  [][ /\ IsState(state')
      /\ last'.op = "UNKNOWN" => state' = state ]_vars

\* an action of an unknown type met a state with books, results, an error
\* and a search in progress
C25_Witness ==
  /\ last.op = "UNKNOWN"
  /\ state.books # << >>
  /\ state.searchResults # << >>
  /\ state.error # null
  /\ state.isLoading

(***************************************************************************)
(* Functions called on their own: the search collaborator                  *)
(* (services/mockBooksApi.ts, services/googleBooksApi.ts).                 *)
(***************************************************************************)
\* mockBooks.items
MockCatalog ==
  << GoogleBookItem(Str("mock1"), Str("React - The Complete Guide"),
                    Some(<< Str("Maximilian Schwarzmüller") >>),
                    Some(Str("2021")), Some(Str("Learn React")),
                    Some([thumbnail |-> Some(Str("React.png"))])),
     GoogleBookItem(Str("mock2"), Str("JavaScript: The Good Parts"),
                    Some(<< Str("Douglas Crockford") >>),
                    Some(Str("2008")), Some(Str("A deep dive")),
                    Some([thumbnail |-> Some(Str("JavaScript.png"))])),
     GoogleBookItem(Str("mock3"), Str("Clean Code"),
                    Some(<< Str("Robert C. Martin") >>),
                    Some(Str("2008")), Some(Str("A handbook")),
                    Some([thumbnail |-> Some(Str("Clean+Code.png"))])),
     GoogleBookItem(Str("mock4"), Str("The Pragmatic Programmer"),
                    Some(<< Str("David Thomas"), Str("Andrew Hunt") >>),
                    Some(Str("1999")), Some(Str("Your journey to mastery")),
                    Some([thumbnail |-> Some(Str("Pragmatic.png"))])),
     GoogleBookItem(Str("mock5"), Str("You Don't Know JS"),
                    Some(<< Str("Kyle Simpson") >>),
                    Some(Str("2015")), Some(Str("Core mechanisms")),
                    Some([thumbnail |-> Some(Str("YDKJS.png"))])) >>

\* Array.prototype.find: the first element that passes, or undefined
Find(items, Test(_)) ==
  LET passing == SelectSeq(items, Test) IN
  IF passing = << >> THEN None ELSE Some(Head(passing))

\* a mock getBookById that hands back what find gave
mockGetBookByIdUnchecked(bookId) ==
  Returned(Find(MockCatalog, LAMBDA item : item.id = bookId).val)

\* mockBooksApi.getBookById
mockGetBookById(bookId) ==
  LET book == Find(MockCatalog, LAMBDA item : item.id = bookId) IN
  IF ~book.has
  THEN Threw(<< "Book with ID " >> \o bookId \o << " not found" >>)
  ELSE Returned(book.val)

\* Number.prototype.toString in a template literal: the decimal digits
Digit(d) ==
  CASE d = 0 -> "0" [] d = 1 -> "1" [] d = 2 -> "2" [] d = 3 -> "3"
    [] d = 4 -> "4" [] d = 5 -> "5" [] d = 6 -> "6" [] d = 7 -> "7"
    [] d = 8 -> "8" [] d = 9 -> "9"

RECURSIVE NumberToString(_)
NumberToString(n) ==
  IF n < 10 THEN << Digit(n) >>
  ELSE NumberToString(n \div 10) \o << Digit(n % 10) >>

\* how the fetch of googleBooksApi.getBookById can end: the promise rejects,
\* or resolves with a response that is ok or not, whose body is JSON or not
NetworkError == [kind |-> "rejected", ok |-> FALSE, status |-> 0, json |-> None]
Response(ok, status, json) ==
  [kind |-> "response", ok |-> ok, status |-> status, json |-> json]

\* googleBooksApi.getBookById; fetched is what fetch does if it is called
googleGetBookById(apiKey, bookId, fetched) ==
  IF ~apiKey THEN Threw(Str("Google Books API key is not configured"))
  ELSE IF fetched.kind = "rejected" THEN Threw(Str("Failed to fetch"))
  ELSE IF ~fetched.ok
       THEN Threw(<< "API request failed with status " >>
                  \o NumberToString(fetched.status))
  ELSE IF ~fetched.json.has
       THEN Threw(Str("Unexpected token < in JSON at position 0"))
  ELSE Returned(fetched.json.val)

\* ids handed to getBookById: those of the catalog and others
CatalogIds == { MockCatalog[i].id : i \in DOMAIN MockCatalog }

LookedUpIds ==
  CatalogIds
  \cup { Str("unknown"), Str("mock6"), Str("MOCK1"), << >>, << "mock1", " " >> }

\* status codes of responses that are not ok
ErrorStatuses == { 400, 401, 403, 404, 429, 500, 503 }

\* what the volumes endpoint can answer for an id: for a volume it has, the
\* volume of that id (or a body that is no JSON); for any id, an error
\* status; or no answer at all
FetchOutcomes(bookId) ==
  { NetworkError }
  \cup { Response(FALSE, n, None) : n \in ErrorStatuses }
  \cup { Response(TRUE, 200, json) :
           json \in IF bookId \in CatalogIds
                    THEN { None,
                           Some(CHOOSE item \in { MockCatalog[i] : i \in DOMAIN MockCatalog } :
                                  item.id = bookId) }
                    ELSE { } }

\* fetch was not called
NoFetch == [kind |-> "not called", ok |-> FALSE, status |-> 0, json |-> None]

mockGetBookByIdCalled(bookId) ==
  /\ call' = [ fn |-> "mockBooksApi.getBookById",
               args |-> [apiKey |-> FALSE, bookId |-> bookId, fetched |-> NoFetch],
               result |-> mockGetBookById(bookId) ]
  /\ UNCHANGED << Store, page >>

googleGetBookByIdCalled(apiKey, bookId, fetched) ==
  /\ call' = [ fn |-> "googleBooksApi.getBookById",
               args |-> [ apiKey |-> apiKey, bookId |-> bookId,
                          fetched |-> IF apiKey THEN fetched ELSE NoFetch ],
               result |-> googleGetBookById(apiKey, bookId, fetched) ]
  /\ UNCHANGED << Store, page >>

NextCollaborator ==
  \/ \E bookId \in LookedUpIds : mockGetBookByIdCalled(bookId)
  \/ \E apiKey \in BOOLEAN, bookId \in LookedUpIds :
       \E fetched \in FetchOutcomes(bookId) :
         googleGetBookByIdCalled(apiKey, bookId, fetched)

SpecCollaborator == InitCalls /\ [][NextCollaborator]_vars

\* C26: getBookById fails for an id that is unknown.  The mock throws "Book
\* with ID <id> not found" for every id that is not in its catalog; the
\* real service throws "API request failed with status <n>" when the
\* response is not ok, as it is for an id the endpoint has no volume for;
\* and an item that is returned has the id that was asked for.
C26_UnknownIdIsRejected ==
  /\ call.fn = "mockBooksApi.getBookById" =>
       IF call.args.bookId \in { Str("mock1"), Str("mock2"), Str("mock3"),
                                 Str("mock4"), Str("mock5") }
       THEN call.result.ok
       ELSE /\ ~call.result.ok
            /\ call.result.message
                 = << "Book with ID " >> \o call.args.bookId \o << " not found" >>
  /\ call.fn = "googleBooksApi.getBookById" =>
       /\ (call.args.fetched.kind = "response" /\ ~call.args.fetched.ok) =>
            /\ ~call.result.ok
            /\ \E n \in ErrorStatuses :
                 /\ call.args.fetched.status = n
                 /\ call.result.message
                      = << "API request failed with status ",
                           Digit(n \div 100), Digit((n \div 10) % 10),
                           Digit(n % 10) >>
       /\ call.args.bookId \notin CatalogIds => ~call.result.ok
  /\ (call.fn # "none" /\ call.result.ok) =>
       call.result.value.id = call.args.bookId

\* the mock was asked for an id it does not have and threw
C26_Witness ==
  /\ call.fn = "mockBooksApi.getBookById"
  /\ call.args.bookId = Str("unknown")
  /\ call.result = Threw(<< "Book with ID ", "unknown", " not found" >>)

\* C27: ADD_BOOK puts the record it is given last in books and keeps the
\* other records in the order they had; when a record of the same id was
\* there, it is gone from its old position and the new one stands last.
C27_AddedBookGoesLast ==
  [][ last'.op = "ADD_BOOK" =>
        LET book == last'.action.payload
            n == Len(state'.books)
        IN
        /\ n >= 1
        /\ state'.books[n] = book
        /\ SubSeq(state'.books, 1, n - 1) = WithoutId(state.books, book.id)
        /\ \A i \in 1..(n - 1) : state'.books[i].id # book.id ]_vars

\* the id of the first of two books was added again: its record is now the
\* second
C27_Witness ==
  /\ last.op = "ADD_BOOK"
  /\ last.hit
  /\ Len(state.books) = 2
  /\ state.books[2] = last.action.payload
  /\ state.books[1].id # last.action.payload.id

\* C28: the reducer keeps collection and search apart.  ADD_BOOK,
\* REMOVE_BOOK, UPDATE_BOOK_STATUS and LOAD_FROM_STORAGE leave
\* searchResults, isLoading and error as they were; SET_SEARCH_RESULTS,
\* SET_LOADING, SET_ERROR and CLEAR_SEARCH leave books and the three views
\* as they were.
C28_CollectionAndSearchAreIndependent ==
  [][ /\ last'.op \in { "ADD_BOOK", "REMOVE_BOOK", "UPDATE_BOOK_STATUS",
                        "LOAD_FROM_STORAGE" } =>
           /\ state'.searchResults = state.searchResults
           /\ state'.isLoading = state.isLoading
           /\ state'.error = state.error
      /\ last'.op \in { "SET_SEARCH_RESULTS", "SET_LOADING", "SET_ERROR",
                        "CLEAR_SEARCH" } =>
           /\ state'.books = state.books
           /\ \A s \in BookStatus : ViewOf(state', s) = ViewOf(state, s) ]_vars

\* a book was added while results, an error and a search in progress were
\* in the state
C28_Witness ==
  /\ last.op = "ADD_BOOK"
  /\ state.searchResults # << >>
  /\ state.error # null
  /\ state.isLoading
  /\ state.books # << >>

\* C29: SET_SEARCH_RESULTS makes searchResults the records it is given,
\* error null and isLoading false, whatever they were before.
C29_SetSearchResultsClearsError ==
  [][ last'.op = "SET_SEARCH_RESULTS" =>
        /\ state'.searchResults = last'.action.payload
        /\ state'.error = null
        /\ state'.isLoading = FALSE ]_vars

\* results were set in a state that holds books
C29_Witness ==
  /\ last.op = "SET_SEARCH_RESULTS"
  /\ last.action.payload # << >>
  /\ state.searchResults = last.action.payload
  /\ state.books # << >>

\* C30: SET_ERROR makes error the message it is given and isLoading false,
\* and leaves searchResults as they were; SET_LOADING makes isLoading the
\* flag it is given and leaves searchResults and error as they were.
C30_SetErrorAndSetLoadingFrames ==
  [][ /\ last'.op = "SET_ERROR" =>
           /\ state'.error = last'.action.payload
           /\ state'.isLoading = FALSE
           /\ state'.searchResults = state.searchResults
      /\ last'.op = "SET_LOADING" =>
           /\ state'.isLoading = last'.action.payload
           /\ state'.searchResults = state.searchResults
           /\ state'.error = state.error ]_vars

\* an error was set while results were shown
C30_Witness ==
  /\ last.op = "SET_ERROR"
  /\ state.error = NoBooksMessage
  /\ state.searchResults # << >>
  /\ state.isLoading = FALSE


(***************************************************************************)
(* Properties of overlapping searches and of failed writes.                *)
(***************************************************************************)
\* C31: while the awaited call of at least one searchBooks is outstanding,
\* isLoading is true.
C31_LoadingWhileSearchOutstanding ==
  (mounted /\ inflight # << >>) => state.isLoading

\* the search was cleared by the call handled last: clearSearch (which the
\* search page also calls when it unmounts) or a searchBooks with a blank
\* query
JustCleared(ev) ==
  ev.op = "clearSearch" \/ (ev.op = "searchBooks" /\ IsBlank(ev.id))

\* C32: once the search has been cleared, searchResults stays empty and
\* error stays null until the next non-blank searchBooks is issued, also
\* when a search issued before the clearing call settles right after it.
C32_ClearedSearchStaysCleared ==
  [][ (JustCleared(last) /\ last'.op = "searchBooks settles") =>
        /\ state'.searchResults = << >>
        /\ state'.error = null ]_vars

\* a searchBooks call with a non-blank query was handled
Issued(ev) == ev.op = "searchBooks" /\ ~IsBlank(ev.id)

Decoded(item) ==
  IF item.present /\ JSONparse(item.text).ok /\ IsArray(JSONparse(item.text))
  THEN Some(JSONparse(item.text).val)
  ELSE None

\* C34: right after every write the storage accepted, by the save effect
\* of a mount or of a mutation, the slot decodes to exactly state.books,
\* whatever it held before and however far it had fallen behind.
C34_AcceptedWriteStoresAllBooks ==
  [][ last'.outcome = "stored" => Decoded(localStorage') = Some(state'.books) ]_vars

\* a removal was stored after the write of the two books it started from
\* had been rejected: the slot, which had room for one book only and so was
\* behind, now holds the book that is left
C34_Witness ==
  /\ last.op = "removeBook" /\ last.hit
  /\ last.outcome = "stored"
  /\ state.error = QuotaMessage
  /\ Len(state.books) = 1
  /\ Decoded(localStorage) = Some(state.books)

\* C35: the storage message a rejected write put in error stays there
\* through addBook, removeBook and updateBookStatus, also when their write
\* is accepted; while the provider is mounted it leaves error only by a
\* clearing call (CLEAR_SEARCH) or by a search that settles
\* (SET_SEARCH_RESULTS, with SET_ERROR for an empty or failed response).
C35_StorageMessageLeavesBySearchOnly ==
  [][ (mounted /\ mounted' /\ state.error = QuotaMessage) =>
        /\ last'.op \in Mutators => state'.error = QuotaMessage
        /\ state'.error # QuotaMessage =>
             \/ JustCleared(last')
             \/ /\ last'.op = "searchBooks settles"
                /\ state'.error \in { null, NoBooksMessage } ]_vars

\* a book was added again and stored while the message of an earlier
\* rejected write was shown, and the message is still there
C35_Witness ==
  /\ last.op = "addBook" /\ last.hit
  /\ last.outcome = "stored"
  /\ state.error = QuotaMessage


\* setItem threw something that is no QuotaExceededError
OtherFailure(ev) == ev.outcome \notin { "none", "stored", "QuotaExceededError" }

\* C36: when the write that follows an addBook, removeBook or
\* updateBookStatus is rejected for a reason other than the quota, nothing
\* is surfaced: error, isLoading and searchResults stay as they were, books
\* holds the result of the mutation and the slot keeps what it held.
C36_OtherWriteFailureIsSilent ==
  [][ (last'.op \in Mutators /\ OtherFailure(last')) =>
        /\ state'.error = state.error
        /\ state'.isLoading = state.isLoading
        /\ state'.searchResults = state.searchResults
        /\ state'.books = Mutated(state.books, last')
        /\ localStorage' = localStorage ]_vars

\* a book was added while results were shown in a browser that denies the
\* page its storage: the book is in memory only and no message is shown
C36_Witness ==
  /\ last.op = "addBook"
  /\ last.outcome = "SecurityError"
  /\ state.books = << last.book >>
  /\ state.error = null
  /\ state.searchResults # << >>
  /\ ~localStorage.present


CollectionActions == { "ADD_BOOK", "REMOVE_BOOK", "UPDATE_BOOK_STATUS" }

\* C37: ADD_BOOK, REMOVE_BOOK and UPDATE_BOOK_STATUS are idempotent: the
\* state an action has produced is a fixed point of that action, and a
\* dispatch that repeats the action dispatched just before it leaves every
\* field of the state as it is.
C37_MutationsAreIdempotent ==
  [][ last'.op \in CollectionActions =>
        /\ bookCollectionReducer(state', last'.action) = state'
        /\ (last.op = last'.op /\ last.action = last'.action) => state' = state ]_vars

\* the status the first of two books was given is the one it was given
\* again: both books stand where they stood
C37_Witness ==
  /\ last.op = "UPDATE_BOOK_STATUS" /\ last.hit
  /\ Len(state.books) = 2
  /\ state.books[1].id = last.action.payload.id
  /\ state.books[1].status = last.action.payload.status
  /\ bookCollectionReducer(state, last.action) = state


(***************************************************************************)
(* The book details page (pages/BookDetailsPage.tsx) on top of the store.  *)
(***************************************************************************)
\* route parameters: an id of the user's catalog, one no book has, and none
RouteIds == ArgIds \cup { << >> }

\* const collectionBook = books.find(b => b.id === id)
CollectionBook(books, id) == Find(books, LAMBDA b : b.id = id)

\* an effect that asks the collaborator whatever the collection holds
fetchBookDetailsAlways(pg, books) ==
  IF pg.id = << >> THEN pg
  ELSE [ pg EXCEPT !.isLoading = TRUE, !.error = null,
                   !.pending = Append(@, pg.id),
                   !.called = Append(@, pg.id) ]

\* the effect on [id, collectionBook], up to its first await: nothing
\* without an id, the collection's record if there is one, else a call of
\* booksApi.getBookById(id)
fetchBookDetails(pg, books) ==
  IF pg.id = << >> THEN pg
  ELSE IF CollectionBook(books, pg.id).has
  THEN [ pg EXCEPT !.book = CollectionBook(books, pg.id),
                   !.isLoading = FALSE, !.error = null ]
  ELSE [ pg EXCEPT !.isLoading = TRUE, !.error = null,
                   !.pending = Append(@, pg.id),
                   !.called = Append(@, pg.id) ]

\* the render after the store changed books: the effect runs again when
\* collectionBook is another object than in the render before
Rerendered(pg, before, after) ==
  LET quiet == [pg EXCEPT !.called = << >>] IN
  IF CollectionBook(before, pg.id).has \/ CollectionBook(after, pg.id).has
  THEN fetchBookDetails(quiet, after)
  ELSE quiet

\* how an awaited getBookById(id) can end, with the mock and with the real
\* service
GetBookByIdOutcomes(id) ==
  { mockGetBookById(id) }
  \cup { googleGetBookById(TRUE, id, fetched) : fetched \in FetchOutcomes(id) }

\* the page renders the book with its controls: it is not loading, shows no
\* error and has a book
Visible(pg) == pg.open /\ ~pg.isLoading /\ pg.error = null /\ pg.book.has

\* the stores the page can be opened on: a mounted provider that loaded and
\* saved the collection of an earlier session
InitDetails ==
  /\ localStorage \in { Item(JSONstringify(c)) :
                          c \in { x \in Collections(MaxStored) : UniqueIds(x) } }
  /\ state = loadInitialState(localStorage, FALSE)
  /\ quota \in { Capacity(k) : k \in 1..MaxQuota }
  /\ Len(localStorage.text) <= quota
  /\ denied = FALSE
  /\ mounted = TRUE
  /\ inflight = << >>
  /\ written = Some(state.books)
  /\ last = Event("none", NoBook, << >>, FALSE, "none")
  /\ call = NoCall
  /\ page = NoPage

\* the route /book/:id is entered: first render and first run of the effect
OpenDetails(id) ==
  /\ mounted /\ ~page.open
  /\ page' = fetchBookDetails([NoPage EXCEPT !.open = TRUE, !.id = id],
                              state.books)
  /\ last' = Event("BookDetailsPage", NoBook, id, HasId(state.books, id), "none")
  /\ UNCHANGED << state, localStorage, quota, denied, mounted, inflight,
                  written, call >>

\* the route is left; a response that arrives later finds no page
CloseDetails ==
  /\ page.open
  /\ page' = NoPage
  /\ last' = Event("BookDetailsPage closed", NoBook, page.id, FALSE, "none")
  /\ UNCHANGED << state, localStorage, quota, denied, mounted, inflight,
                  written, call >>

\* the oldest awaited getBookById settles: the rest of fetchBookDetails
getBookByIdSettles(result) ==
  /\ page.open /\ page.pending # << >>
  /\ result \in GetBookByIdOutcomes(Head(page.pending))
  /\ page' =
       IF result.ok
       THEN [ page EXCEPT
                !.book = Some(mapGoogleBookToBook(result.value,
                                                  Str("want-to-read"))),
                !.isLoading = FALSE,
                !.pending = Tail(@), !.called = << >> ]
       ELSE [ page EXCEPT
                !.error = result.message, !.book = None,
                !.isLoading = FALSE,
                !.pending = Tail(@), !.called = << >> ]
  /\ last' = Event("getBookById settles", NoBook, Head(page.pending),
                   result.ok, "none")
  /\ UNCHANGED << state, localStorage, quota, denied, mounted, inflight,
                  written, call >>

\* the status select of a book that is not in the collection
handleStatusSelection(status) ==
  /\ Visible(page) /\ ~CollectionBook(state.books, page.id).has
  /\ page' = [page EXCEPT !.selectedStatus = status, !.called = << >>]
  /\ last' = Event("handleStatusSelection", NoBook, page.id, FALSE, "none")
  /\ UNCHANGED << state, localStorage, quota, denied, mounted, inflight,
                  written, call >>

\* the status select of a book that is in the collection
handleStatusChange(status) ==
  /\ Visible(page) /\ CollectionBook(state.books, page.id).has
  /\ Commit(bookCollectionReducer(
              state,
              Action("UPDATE_BOOK_STATUS",
                     [id |-> page.book.val.id, status |-> status])),
            "updateBookStatus", Book(page.book.val.id, NoBook, status),
            page.book.val.id, HasId(state.books, page.book.val.id))
  /\ page' = Rerendered(page, state.books, state'.books)
  /\ UNCHANGED << quota, denied, mounted, inflight, call >>

\* the button 'Remove from Collection' / 'Add to Collection'
handleCollectionToggle ==
  /\ Visible(page)
  /\ IF CollectionBook(state.books, page.id).has
     THEN Commit(bookCollectionReducer(
                   state, Action("REMOVE_BOOK", page.book.val.id)),
                 "removeBook", NoBook, page.book.val.id,
                 HasId(state.books, page.book.val.id))
     ELSE LET book == [page.book.val EXCEPT !.status = page.selectedStatus] IN
          Commit(bookCollectionReducer(state, Action("ADD_BOOK", book)),
                 "addBook", book, book.id, HasId(state.books, book.id))
  /\ page' = Rerendered(page, state.books, state'.books)
  /\ UNCHANGED << quota, denied, mounted, inflight, call >>

NextDetails ==
  \/ \E id \in RouteIds : OpenDetails(id)
  \/ CloseDetails
  \/ \E result \in UNION { GetBookByIdOutcomes(id) : id \in RouteIds } :
       getBookByIdSettles(result)
  \/ \E status \in BookStatus : handleStatusSelection(status)
  \/ \E status \in BookStatus : handleStatusChange(status)
  \/ handleCollectionToggle

SpecDetails == InitDetails /\ [][NextDetails]_vars


\* the steps in which the effect of the details page runs: the page opens,
\* or the store changes books under the open page
EffectSteps == { "BookDetailsPage", "addBook", "removeBook", "updateBookStatus" }

\* C38: the details page calls getBookById only for a route id that is not
\* in the collection.  Every call is made with exactly the route id, which
\* is not empty and not the id of a book in books; when the effect runs and
\* a book of the route id is in books, no call is made and the page shows
\* that record; when none is and the id is not empty, one call is made; and
\* without a route id no call is made.
C38_DetailsCallOnlyOutsideCollection ==
  [][ page'.open =>
        /\ page'.called # << >> =>
             /\ page'.called = << page'.id >>
             /\ page'.id # << >>
             /\ ~HasId(state'.books, page'.id)
             /\ last'.op \in EffectSteps
        /\ HasId(state'.books, page'.id) =>
             /\ page'.called = << >>
             /\ page'.pending = << >>
             /\ page'.book = CollectionBook(state'.books, page'.id)
             /\ Visible(page')
        /\ (last'.op \in EffectSteps /\ ~HasId(state'.books, page'.id)
              /\ page'.id # << >>) =>
             /\ page'.called = << page'.id >>
             /\ page'.isLoading
        /\ page'.id = << >> => page'.called = << >> /\ page'.pending = << >> ]_vars

\* the book the page had fetched was added from the page: the effect ran
\* again, made no call, and the page shows the record of the collection
C38_Witness ==
  /\ page.open
  /\ last.op = "addBook"
  /\ HasId(state.books, page.id)
  /\ page.book = CollectionBook(state.books, page.id)
  /\ page.book.val.title = MockCatalog[1].volumeInfo.title
  /\ page.called = << >>


(***************************************************************************)
(* The dashboard (pages/HomePage.tsx).                                     *)
(***************************************************************************)
\* the largest collection the dashboard is rendered for
MaxBooks == 40

\* a progress that drops the fraction
readingProgressTruncating(haveRead, totalBooks) ==
  IF totalBooks > 0 THEN { (100 * haveRead) \div totalBooks } ELSE { 0 }

\* totalBooks > 0 ? Math.round((haveRead / totalBooks) * 100) : 0, as the
\* set of values the expression can have.  Math.round takes the nearer
\* integer and, of two equally near ones, the larger; the quotient and the
\* product are rounded to doubles first, so that a percentage that lies
\* exactly halfway can reach Math.round a little below the half (23 of 40
\* gives 57.49999999999999): halfway, either neighbour is a possible value
readingProgress(haveRead, totalBooks) ==
  IF totalBooks > 0
  THEN LET lower == (100 * haveRead) \div totalBooks
           twiceRest == 2 * ((100 * haveRead) % totalBooks)
       IN IF twiceRest < totalBooks THEN { lower }
          ELSE IF twiceRest > totalBooks THEN { lower + 1 }
          ELSE { lower, lower + 1 }
  ELSE { 0 }

\* the dashboard is rendered for a collection of totalBooks books of which
\* haveRead have the status 'have-read'
HomePageRendered(haveRead, totalBooks) ==
  /\ haveRead <= totalBooks
  /\ \E progress \in readingProgress(haveRead, totalBooks) :
       call' = [ fn |-> "HomePage.readingProgress",
                 args |-> [haveRead |-> haveRead, totalBooks |-> totalBooks],
                 result |-> Returned(progress) ]
  /\ UNCHANGED << Store, page >>

NextDashboard ==
  \E totalBooks \in 0..MaxBooks, haveRead \in 0..MaxBooks :
    HomePageRendered(haveRead, totalBooks)

SpecDashboard == InitCalls /\ [][NextDashboard]_vars

Distance(a, b) == IF a >= b THEN a - b ELSE b - a

\* C39: the reading progress is an integer from 0 to 100; it is 0 for an
\* empty collection; otherwise no integer is nearer to 100 * haveRead /
\* totalBooks than it is; it is 100 when every book is have-read and 0
\* when none is.
C39_ProgressIsTheRoundedPercentage ==
  call.fn = "HomePage.readingProgress" =>
    LET haveRead == call.args.haveRead
        totalBooks == call.args.totalBooks
        progress == call.result.value
    IN
    /\ call.result.ok
    /\ progress \in 0..100
    /\ totalBooks = 0 => progress = 0
    /\ totalBooks > 0 =>
         /\ \A n \in 0..100 :
              Distance(100 * haveRead, progress * totalBooks)
                <= Distance(100 * haveRead, n * totalBooks)
         /\ haveRead = totalBooks => progress = 100
    /\ haveRead = 0 => progress = 0

\* one book of three is read: 33.33 is shown as 33
C39_Witness ==
  /\ call.fn = "HomePage.readingProgress"
  /\ call.args = [haveRead |-> 1, totalBooks |-> 3]
  /\ call.result = Returned(33)

====
